---- MODULE Spec2Model ----
(***************************************************************************)
(* Model of eo (src/src/main.rs): one edit session.  The main task         *)
(* downloads the object, spawns the background task watch_and_sync_file,   *)
(* blocks on the editor, sends the stop signal and joins the task.  The    *)
(* background task owns the watcher, the change channel, last_event and    *)
(* debounce_timer, and runs the three-way select loop.                     *)
(*                                                                         *)
(* Time is a discrete clock `now`.  A step of the select loop takes no     *)
(* time: the clock does not advance while a branch of the select is ready  *)
(* (the runtime wakes the task at once); which ready branch runs is free,  *)
(* as tokio::select! picks among ready branches at random.  Downloads,     *)
(* uploads, the editor and the start of the spawned task take any time.    *)
(* Only the task reads the clock, and only differences of readings matter, *)
(* so the clock is counted from the start of the task and runs while the   *)
(* task does.                                                              *)
(***************************************************************************)
EXTENDS Integers, Sequences, FiniteSets, TLC

\* ------------------------------------------------------------------ bounds
\* Largest clock value explored.
MaxTime == 4
\* Largest number of operations on the working copy while the editor is
\* open: writes of new content and other notified operations together.
MaxEdits == 3

\* Largest number of notifications other than content writes in one session.
MaxNotify == 1
\* Largest --debounce value explored (0 .. MaxDebounce clock units).
MaxDebounce == 2
\* Longest text after the scheme in the URIs given to parse_uri.
MaxUriRest == 3

VARIABLES
    pc,                \* position of the main task (main / cloud_edit / edit_file)
    cfg,               \* the command line given to main
    uri,               \* cli.uri: {} = None, {s} = Some(s), s a sequence of characters
    parsed,            \* what parse_uri(&cli.uri) returned, kind "pending" before the call
    exitCode,          \* result of cloud_edit / exit code of the process, -1 = none yet
    downloadResult,    \* "none", "ok", "failed"
    editor,            \* "notlaunched", "running", "exited", "launchfailed"
    editorStatus,      \* exit status of the editor process, -1 = none yet
    task,              \* position of the spawned task watch_and_sync_file
    watcher,           \* "none", "ok" (watching the file), "failed"
    stop_chan,         \* messages buffered in the stop channel (capacity 1)
    stop_tx_dropped,   \* the stop sender has been dropped (cloud_edit returned)
    stopsSent,         \* number of stop signals the session has sent
    rx,                \* change events queued in the unbounded channel
    last_event,        \* Instant of the last change event the loop received
    debounce_timer,    \* {} = None, {d} = Some(sleep task finishing at d)
    debounce_duration, \* the --debounce value
    now,               \* the clock
    fileVer,           \* content of the working copy (0 = as downloaded)
    uploads,           \* the upload calls issued, in order
    remoteVer,         \* content of the remote object (0 = as downloaded)
    nEvents,           \* change events the watcher has produced
    nRecv,             \* change events the loop has received
    lastProduced,      \* time of the last change event the watcher produced
    burst,             \* every event so far came strictly within
                       \* debounce_duration of the previous one
    file_path,         \* --file-path option: {} = None, {path} = Some(path)
    temp_path,         \* cloud_edit's temp_path: "unset", "supplied", "temp",
                       \* or "failed" when no temporary file could be created
    onDisk,            \* a file exists at temp_path
    deletions,         \* number of times the session deleted that file
    delivered,         \* notifications other than content writes given to the
                       \* watcher's callback
    forwarded          \* those of them the callback sent on as change events

vars == << pc, cfg, uri, parsed, exitCode, downloadResult, editor, editorStatus, task, watcher,
           stop_chan, stop_tx_dropped, stopsSent, rx, last_event,
           debounce_timer, debounce_duration, now, fileVer, uploads,
           remoteVer, nEvents, nRecv, lastProduced, burst, delivered, forwarded,
          file_path, temp_path, onDisk, deletions >>

pathVars == << file_path, temp_path, onDisk, deletions >>
mainVars == << pc, cfg, uri, parsed, exitCode, downloadResult, editor, editorStatus,
              file_path, temp_path, onDisk, deletions >>
stopVars == << stop_chan, stop_tx_dropped, stopsSent >>
loopVars == << rx, last_event, debounce_timer, nRecv >>
fileVars == << fileVer, nEvents, lastProduced, burst, delivered, forwarded >>
syncVars == << uploads, remoteVer >>

\* Command lines: a valid one, one whose --uri parse_uri rejects, one whose
\* --storage is neither "s3" nor "gcs".  With either of the last two main
\* returns an error before cloud_edit is called.
Configs == {"ok", "bad_uri", "bad_storage"}

\* The two schemes parse_uri accepts, as sequences of characters.
S3Scheme == << "s", "3", ":", "/", "/" >>
GsScheme == << "g", "s", ":", "/", "/" >>

\* The --uri of each command line: s3://b/k, b/k, and none (--bucket and
\* --key are given instead).
CliUri(c) ==
    CASE c = "ok" -> {S3Scheme \o << "b", "/", "k" >>}
      [] c = "bad_uri" -> {<< "b", "/", "k" >>}
      [] OTHER -> {}

\* The URIs parse_uri is tried on: none, and every beginning below followed
\* by up to MaxUriRest characters of a bucket, a key and slashes.
UriHeads ==
    {S3Scheme, GsScheme, << "s", "3", ":", "/" >>, << "g", "s", ":" >>,
     << "x", ":", "/", "/" >>, << >>}
UriRests == UNION {[1..n -> {"b", "k", "/"}] : n \in 0..MaxUriRest}
UriInputs == {{}} \cup {{h \o r} : h \in UriHeads, r \in UriRests}

\* str::strip_prefix: {} = None, {rest} = Some(rest).
strip_prefix(s, p) ==
    IF Len(s) >= Len(p) /\ SubSeq(s, 1, Len(p)) = p
    THEN {SubSeq(s, Len(p) + 1, Len(s))}
    ELSE {}

\* Faulty variant: str::rsplit_once, which splits at the last delimiter.
rsplit_once(s, c) ==
    LET at == {i \in 1..Len(s) : s[i] = c}
    IN  IF at = {} THEN {}
        ELSE LET i == CHOOSE x \in at : \A y \in at : y <= x
             IN  {<< SubSeq(s, 1, i - 1), SubSeq(s, i + 1, Len(s)) >>}

\* str::split_once: splits at the first delimiter; {} = None.
split_once(s, c) ==
    LET at == {i \in 1..Len(s) : s[i] = c}
    IN  IF at = {} THEN {}
        ELSE LET i == CHOOSE x \in at : \A y \in at : x <= y
             IN  {<< SubSeq(s, 1, i - 1), SubSeq(s, i + 1, Len(s)) >>}

\* Results of parse_uri: Ok(None), Ok(Some((bucket, key))), Err.
NotParsed == [kind |-> "pending", bucket |-> << >>, key |-> << >>]
OkNone == [kind |-> "none", bucket |-> << >>, key |-> << >>]
OkSome(b, k) == [kind |-> "ok", bucket |-> b, key |-> k]
ParseErr == [kind |-> "err", bucket |-> << >>, key |-> << >>]

\* uri::parse_uri.
parse_uri(u) ==
    IF u = {} THEN OkNone
    ELSE LET uri_str == CHOOSE x \in u : TRUE
             s3 == strip_prefix(uri_str, S3Scheme)
             stripped == IF s3 # {} THEN s3 ELSE strip_prefix(uri_str, GsScheme)
             halves == UNION {split_once(t, "/") : t \in stripped}
         IN  IF halves # {}
             THEN LET bk == CHOOSE x \in halves : TRUE IN OkSome(bk[1], bk[2])
             ELSE ParseErr

\* Exit statuses of the editor process.
\* --file-path: absent, or the path of a local file.
FilePaths == {{}, {"local"}}

Statuses == {0, 1}

\* Everything but the command line, as it is when main starts.
SessionInit ==
    /\ pc = "main"
    /\ parsed = NotParsed
    /\ exitCode = -1
    /\ downloadResult = "none"
    /\ editor = "notlaunched"
    /\ editorStatus = -1
    /\ task = "notspawned"
    /\ watcher = "none"
    /\ stop_chan = 0
    /\ stop_tx_dropped = FALSE
    /\ stopsSent = 0
    /\ rx = 0
    /\ last_event = 0
    /\ debounce_timer = {}
    /\ debounce_duration \in 0..MaxDebounce
    /\ now = 0
    /\ fileVer = 0
    /\ uploads = << >>
    /\ remoteVer = 0
    /\ nEvents = 0
    /\ nRecv = 0
    /\ lastProduced = 0
    /\ burst = TRUE
    /\ delivered = {}
    /\ forwarded = {}
    /\ temp_path = "unset"
    /\ onDisk = FALSE
    /\ deletions = 0

Init ==
    /\ cfg \in Configs
    /\ uri = CliUri(cfg)
    /\ file_path \in FilePaths
    /\ SessionInit

\* parse_uri alone: main's first step on every URI of UriInputs.
UriInit ==
    /\ cfg = "ok"
    /\ uri \in UriInputs
    /\ file_path = {}
    /\ SessionInit

\* The process is alive: tasks run only until the process exits.
Alive == pc # "exited"

\* The watcher created by the task exists and forwards events.
Watching == watcher = "ok" /\ task \in {"select", "uploading"}

\* The stop receiver still exists (it is owned by the task).
StopRxAlive == task \notin {"done", "failed"}

\* ------------------------------------------------------------- main task

\* main: parse the URI, build the storage client, read --debounce.
Main ==
    /\ pc = "main"
    /\ parsed' = parse_uri(uri)
    /\ IF parsed'.kind # "err" /\ cfg # "bad_storage"
       THEN pc' = "path" /\ exitCode' = exitCode
       ELSE pc' = "exited" /\ exitCode' = 1
    /\ UNCHANGED << cfg, uri, pathVars, downloadResult, editor, editorStatus, task, now,
                    debounce_duration, watcher >>
    /\ UNCHANGED << stopVars, loopVars, fileVars, syncVars >>

\* cloud_edit: temp_path is the supplied path, or else
\* NamedTempFile::new().unwrap().into_temp_path().to_path_buf().  unwrap
\* panics when no temporary file can be created (exit code 101).  The
\* TempPath made by into_temp_path is a temporary of that expression and is
\* dropped at the end of the statement, which deletes the file just created;
\* only the PathBuf copied from it is kept.
ResolvePath(ok) ==
    /\ pc = "path"
    /\ ok \/ file_path = {}
    /\ IF file_path # {}
       THEN /\ temp_path' = "supplied"
            /\ pc' = "download"
            /\ UNCHANGED << onDisk, deletions, exitCode >>
       ELSE IF ok
       THEN /\ temp_path' = "temp"
            /\ onDisk' = FALSE
            /\ deletions' = deletions + 1
            /\ pc' = "download"
            /\ exitCode' = exitCode
       ELSE /\ temp_path' = "failed"
            /\ pc' = "exited"
            /\ exitCode' = 101
            /\ UNCHANGED << onDisk, deletions >>
    /\ UNCHANGED << cfg, uri, parsed, file_path, downloadResult, editor, editorStatus,
                    task, now, debounce_duration, watcher >>
    /\ UNCHANGED << stopVars, loopVars, fileVars, syncVars >>

\* Faulty variant: a failed download is ignored and the session goes on.
DownloadIgnoringFailure(ok) ==
    /\ pc = "download"
    /\ downloadResult' = IF ok THEN "ok" ELSE "failed"
    /\ onDisk' = (onDisk \/ ok)
    /\ pc' = "spawn"
    /\ UNCHANGED << cfg, uri, file_path, temp_path, deletions, parsed, exitCode, editor, editorStatus, task, now,
                    debounce_duration, watcher >>
    /\ UNCHANGED << stopVars, loopVars, fileVars, syncVars >>

\* cloud_edit: client.download_file(..).await?
Download(ok) ==
    /\ pc = "download"
    /\ downloadResult' = IF ok THEN "ok" ELSE "failed"
    /\ onDisk' = (onDisk \/ ok)
    /\ IF ok
       THEN pc' = "spawn" /\ exitCode' = exitCode
       ELSE pc' = "exited" /\ exitCode' = 1
    /\ UNCHANGED << cfg, uri, file_path, temp_path, deletions, parsed, editor, editorStatus, task, now, debounce_duration, watcher >>
    /\ UNCHANGED << stopVars, loopVars, fileVars, syncVars >>

\* cloud_edit: create the stop channel and spawn watch_and_sync_file.
Spawn ==
    /\ pc = "spawn"
    /\ pc' = "edit"
    /\ task' = "spawned"
    /\ UNCHANGED << cfg, uri, pathVars, parsed, exitCode, downloadResult, editor, editorStatus, now,
                    debounce_duration, watcher >>
    /\ UNCHANGED << stopVars, loopVars, fileVars, syncVars >>

\* edit_file: Command::new(editor).arg(file_path).status()? starts the
\* editor, or fails to, and then cloud_edit returns the error at once.
EditorLaunch(ok) ==
    /\ pc = "edit"
    /\ editor = "notlaunched"
    /\ IF ok
       THEN /\ editor' = "running"
            /\ UNCHANGED << pc, exitCode, stop_tx_dropped >>
       ELSE /\ editor' = "launchfailed"
            /\ pc' = "returned"
            /\ exitCode' = 1
            /\ stop_tx_dropped' = TRUE
    /\ UNCHANGED << cfg, uri, pathVars, parsed, downloadResult, editorStatus, task, now,
                    debounce_duration, watcher, stop_chan, stopsSent >>
    /\ UNCHANGED << loopVars, fileVars, syncVars >>

\* What the watcher hands to its callback: Ok(Event) with an EventKind, or
\* Err.  A write of new content is Modify(Data); the others are a
\* metadata-only change, a rename, a create, a delete, and a watcher error.
ContentWrite == [ok |-> TRUE, kind |-> "Modify", what |-> "Data"]
OtherNotifications ==
    {[ok |-> TRUE, kind |-> "Modify", what |-> "Metadata"],
     [ok |-> TRUE, kind |-> "Modify", what |-> "Name"],
     [ok |-> TRUE, kind |-> "Create", what |-> "File"],
     [ok |-> TRUE, kind |-> "Remove", what |-> "File"],
     [ok |-> FALSE, kind |-> "Error", what |-> "Io"]}

\* The callback's match: Ok(Event { kind: EventKind::Modify(_), .. }) sends
\* a change event; Ok(_) and Err(_) send nothing.
Forwards(res) == res.ok /\ res.kind = "Modify"

\* The user saves in the editor: the working copy gets new content and, when
\* the watcher exists, its callback sends one change event.
EditorWrite ==
    /\ pc = "edit"
    /\ editor = "running"
    /\ fileVer + Cardinality(delivered) < MaxEdits
    /\ fileVer' = fileVer + 1
    /\ UNCHANGED << delivered, forwarded >>
    /\ IF Watching /\ Forwards(ContentWrite)
       THEN /\ rx' = rx + 1
            /\ nEvents' = nEvents + 1
            /\ lastProduced' = now
            /\ burst' = (burst /\ (nEvents = 0 \/ now - lastProduced < debounce_duration))
       ELSE UNCHANGED << rx, nEvents, lastProduced, burst >>
    /\ UNCHANGED << mainVars, stopVars, syncVars >>
    /\ UNCHANGED << task, last_event, debounce_timer, nRecv, now,
                    debounce_duration, watcher >>

\* The watcher reports something other than a write of new content; the
\* content of the working copy stays as it is.
FsNotify(res) ==
    /\ pc = "edit"
    /\ editor = "running"
    /\ Watching
    /\ res \notin delivered
    /\ Cardinality(delivered) < MaxNotify
    /\ fileVer + Cardinality(delivered) < MaxEdits
    /\ delivered' = delivered \cup {res}
    /\ IF Forwards(res)
       THEN /\ forwarded' = forwarded \cup {res}
            /\ rx' = rx + 1
            /\ nEvents' = nEvents + 1
            /\ lastProduced' = now
            /\ burst' = (burst /\ (nEvents = 0 \/ now - lastProduced < debounce_duration))
       ELSE UNCHANGED << forwarded, rx, nEvents, lastProduced, burst >>
    /\ UNCHANGED << mainVars, stopVars, syncVars >>
    /\ UNCHANGED << task, fileVer, last_event, debounce_timer, nRecv, now,
                    debounce_duration, watcher >>

\* edit_file: the editor process exits; a non-zero status calls exit(1).
EditorExit(status) ==
    /\ pc = "edit"
    /\ editor = "running"
    /\ editor' = "exited"
    /\ editorStatus' = status
    /\ IF status = 0
       THEN pc' = "send" /\ exitCode' = exitCode
       ELSE pc' = "exited" /\ exitCode' = 1
    /\ UNCHANGED << cfg, uri, pathVars, parsed, downloadResult, task, now, debounce_duration, watcher >>
    /\ UNCHANGED << stopVars, loopVars, fileVars, syncVars >>

\* cloud_edit: stop_tx.send(()).await?  The channel holds one message; the
\* send fails when the receiver is gone.
SendStop ==
    /\ pc = "send"
    /\ IF StopRxAlive
       THEN /\ stop_chan < 1
            /\ stop_chan' = stop_chan + 1
            /\ stopsSent' = stopsSent + 1
            /\ pc' = "join"
            /\ UNCHANGED << exitCode, stop_tx_dropped >>
       ELSE /\ pc' = "returned"
            /\ exitCode' = 1
            /\ stop_tx_dropped' = TRUE
            /\ UNCHANGED << stop_chan, stopsSent >>
    /\ UNCHANGED << cfg, uri, pathVars, parsed, downloadResult, editor, editorStatus, task, now,
                    debounce_duration, watcher >>
    /\ UNCHANGED << loopVars, fileVars, syncVars >>

\* cloud_edit: file_watcher_handle.await??, then Ok(()).
Join ==
    /\ pc = "join"
    /\ task \in {"done", "failed"}
    /\ pc' = "returned"
    /\ exitCode' = IF task = "done" THEN 0 ELSE 1
    /\ stop_tx_dropped' = TRUE
    /\ UNCHANGED << cfg, uri, pathVars, parsed, downloadResult, editor, editorStatus, task, now,
                    debounce_duration, watcher, stop_chan, stopsSent >>
    /\ UNCHANGED << loopVars, fileVars, syncVars >>

\* main returns what cloud_edit returned and the process exits.
Exit ==
    /\ pc = "returned"
    /\ pc' = "exited"
    /\ UNCHANGED << cfg, uri, pathVars, parsed, exitCode, downloadResult, editor, editorStatus, task,
                    now, debounce_duration, watcher >>
    /\ UNCHANGED << stopVars, loopVars, fileVars, syncVars >>

\* ------------------------------------------------ watch_and_sync_file

\* Faulty variant: the task arms the timer at start, for an initial sync.
TaskStartArmingTimer(ok) ==
    /\ Alive
    /\ task = "spawned"
    /\ task' = IF ok THEN "select" ELSE "failed"
    /\ watcher' = IF ok THEN "ok" ELSE "failed"
    /\ last_event' = now
    /\ debounce_timer' = {now + debounce_duration}
    /\ UNCHANGED << mainVars, stopVars, fileVars, syncVars >>
    /\ UNCHANGED << rx, nRecv, now, debounce_duration >>

\* The task starts: channel, last_event, debounce_timer, then the watcher,
\* whose creation or watch() may fail and return the error.
TaskStart(ok) ==
    /\ Alive
    /\ task = "spawned"
    /\ task' = IF ok THEN "select" ELSE "failed"
    /\ watcher' = IF ok THEN "ok" ELSE "failed"
    /\ last_event' = now
    /\ debounce_timer' = {}
    /\ UNCHANGED << mainVars, stopVars, fileVars, syncVars >>
    /\ UNCHANGED << rx, nRecv, now, debounce_duration >>

\* Faulty variant: every received event spawns a sleep task of its own.
RecvEventArmingEachTime ==
    /\ Alive
    /\ task = "select"
    /\ rx > 0
    /\ rx' = rx - 1
    /\ nRecv' = nRecv + 1
    /\ last_event' = now
    /\ debounce_timer' = debounce_timer \cup {now + debounce_duration}
    /\ UNCHANGED << mainVars, stopVars, fileVars, syncVars >>
    /\ UNCHANGED << task, now, debounce_duration, watcher >>

\* select, first branch: Some(_) = rx.recv().
RecvEvent ==
    /\ Alive
    /\ task = "select"
    /\ rx > 0
    /\ rx' = rx - 1
    /\ nRecv' = nRecv + 1
    /\ last_event' = now
    /\ debounce_timer' = IF debounce_timer = {}
                         THEN {now + debounce_duration}
                         ELSE debounce_timer
    /\ UNCHANGED << mainVars, stopVars, fileVars, syncVars >>
    /\ UNCHANGED << task, now, debounce_duration, watcher >>

\* The sleep task behind debounce_timer has finished.
TimerExpired == \E d \in debounce_timer : now >= d

\* A new upload call: upload_file reads the working copy, then puts it.
\* Recorded with it: the events produced and received so far, and whether
\* debounce_duration has passed since the watcher's most recent event.
NewUpload ==
    [ver |-> fileVer, status |-> "inflight", recv |-> nRecv, events |-> nEvents,
     trailing |-> (now - lastProduced >= debounce_duration)]

\* Faulty variant: the upload is spawned instead of awaited; the loop goes on.
TimerFireSpawningUpload ==
    /\ Alive
    /\ task = "select"
    /\ TimerExpired
    /\ IF now - last_event >= debounce_duration
       THEN uploads' = Append(uploads, NewUpload)
       ELSE uploads' = uploads
    /\ debounce_timer' = {}
    /\ UNCHANGED << mainVars, stopVars, fileVars >>
    /\ UNCHANGED << task, rx, last_event, nRecv, remoteVer, now, debounce_duration, watcher >>

\* Faulty variant: the elapsed time is compared with > instead of >=.
TimerFireStrictlyLater ==
    /\ Alive
    /\ task = "select"
    /\ TimerExpired
    /\ IF now - last_event > debounce_duration
       THEN /\ uploads' = Append(uploads, NewUpload)
            /\ task' = "uploading"
            /\ UNCHANGED debounce_timer
       ELSE /\ debounce_timer' = {}
            /\ UNCHANGED << uploads, task >>
    /\ UNCHANGED << mainVars, stopVars, fileVars >>
    /\ UNCHANGED << rx, last_event, nRecv, remoteVer, now, debounce_duration, watcher >>

\* select, second branch: the timer has expired.  When debounce_duration
\* has passed since last_event the upload is awaited in the branch;
\* otherwise the timer is only cleared.
TimerFire ==
    /\ Alive
    /\ task = "select"
    /\ TimerExpired
    /\ IF now - last_event >= debounce_duration
       THEN /\ uploads' = Append(uploads, NewUpload)
            /\ task' = "uploading"
            /\ UNCHANGED debounce_timer
       ELSE /\ debounce_timer' = {}
            /\ UNCHANGED << uploads, task >>
    /\ UNCHANGED << mainVars, stopVars, fileVars >>
    /\ UNCHANGED << rx, last_event, nRecv, remoteVer, now, debounce_duration, watcher >>

\* The record of the upload in flight, completed.
Completed(ok) == [uploads[Len(uploads)] EXCEPT !.status = IF ok THEN "ok" ELSE "failed"]

\* Faulty variant: an upload error is returned from the task with `?`.
UploadEndPropagatingError(ok) ==
    /\ Alive
    /\ task = "uploading"
    /\ uploads' = [uploads EXCEPT ![Len(uploads)] = Completed(ok)]
    /\ remoteVer' = IF ok THEN uploads[Len(uploads)].ver ELSE remoteVer
    /\ debounce_timer' = {}
    /\ task' = IF ok THEN "select" ELSE "failed"
    /\ UNCHANGED << mainVars, stopVars, fileVars >>
    /\ UNCHANGED << rx, last_event, nRecv, now, debounce_duration, watcher >>

\* upload_file returns; an error is printed; debounce_timer = None.
UploadEnd(ok) ==
    /\ Alive
    /\ task = "uploading"
    /\ uploads' = [uploads EXCEPT ![Len(uploads)] = Completed(ok)]
    /\ remoteVer' = IF ok THEN uploads[Len(uploads)].ver ELSE remoteVer
    /\ debounce_timer' = {}
    /\ task' = "select"
    /\ UNCHANGED << mainVars, stopVars, fileVars >>
    /\ UNCHANGED << rx, last_event, nRecv, now, debounce_duration, watcher >>

\* Faulty variant: the branch pattern is Some(_), disabled by a closed channel.
StopReadyOnMessageOnly == stop_chan > 0

\* stop_rx.recv() is ready: a message is buffered, or the sender is gone.
StopReady == stop_chan > 0 \/ stop_tx_dropped

\* Faulty variant: the stop branch consumes the signal and does not break.
StopBranchWithoutBreak ==
    /\ Alive
    /\ task = "select"
    /\ stop_chan > 0
    /\ stop_chan' = 0
    /\ UNCHANGED << mainVars, loopVars, fileVars, syncVars >>
    /\ UNCHANGED << task, stop_tx_dropped, stopsSent, now, debounce_duration, watcher >>

\* select, third branch: _ = stop_rx.recv() => break; the task returns Ok.
StopBranch ==
    /\ Alive
    /\ task = "select"
    /\ StopReady
    /\ stop_chan' = 0
    /\ task' = "done"
    /\ UNCHANGED << mainVars, loopVars, fileVars, syncVars >>
    /\ UNCHANGED << stop_tx_dropped, stopsSent, now, debounce_duration, watcher >>

\* -------------------------------------------------------------- the clock

\* A branch of the select is ready.
SelectReady == task = "select" /\ (rx > 0 \/ TimerExpired \/ StopReady)

Tick ==
    /\ Alive
    /\ task \in {"select", "uploading"}
    /\ now < MaxTime
    /\ ~SelectReady
    /\ now' = now + 1
    /\ UNCHANGED << mainVars, stopVars, loopVars, fileVars, syncVars >>
    /\ UNCHANGED << task, debounce_duration, watcher >>

Next ==
    \/ Main
    \/ \E ok \in BOOLEAN : ResolvePath(ok)
    \/ \E ok \in BOOLEAN : Download(ok)
    \/ Spawn
    \/ \E ok \in BOOLEAN : EditorLaunch(ok)
    \/ EditorWrite
    \/ \E res \in OtherNotifications : FsNotify(res)
    \/ \E status \in Statuses : EditorExit(status)
    \/ SendStop
    \/ Join
    \/ Exit
    \/ \E ok \in BOOLEAN : TaskStart(ok)
    \/ RecvEvent
    \/ TimerFire
    \/ \E ok \in BOOLEAN : UploadEnd(ok)
    \/ StopBranch
    \/ Tick

Spec == Init /\ [][Next]_vars

UriSpec == UriInit /\ [][Main]_vars

\* The scheduling the runtime gives: every task that can step does so, and
\* a select branch that stays ready is taken.  The clock and the user (the
\* editor's writes and exit) are under no obligation.
Fairness ==
    /\ WF_vars(Main)
    /\ WF_vars(\E ok \in BOOLEAN : Download(ok))
    /\ WF_vars(Spawn)
    /\ WF_vars(SendStop)
    /\ WF_vars(Join)
    /\ WF_vars(Exit)
    /\ WF_vars(\E ok \in BOOLEAN : TaskStart(ok))
    /\ WF_vars(RecvEvent)
    /\ WF_vars(TimerFire)
    /\ WF_vars(\E ok \in BOOLEAN : UploadEnd(ok))
    /\ WF_vars(StopBranch)

FairSpec == Spec /\ Fairness

TypeOK ==
    /\ pc \in {"main", "path", "download", "spawn", "edit", "send", "join", "returned", "exited"}
    /\ cfg \in Configs
    /\ uri \in UriInputs
    /\ parsed.kind \in {"pending", "none", "ok", "err"}
    /\ exitCode \in {-1, 0, 1, 101}
    /\ file_path \in FilePaths
    /\ temp_path \in {"unset", "supplied", "temp", "failed"}
    /\ onDisk \in BOOLEAN
    /\ deletions \in 0..1
    /\ downloadResult \in {"none", "ok", "failed"}
    /\ editor \in {"notlaunched", "running", "exited", "launchfailed"}
    /\ editorStatus \in {-1} \cup Statuses
    /\ task \in {"notspawned", "spawned", "select", "uploading", "done", "failed"}
    /\ watcher \in {"none", "ok", "failed"}
    /\ stop_chan \in 0..1
    /\ stop_tx_dropped \in BOOLEAN
    /\ stopsSent \in 0..1
    /\ rx \in 0..MaxEdits
    /\ last_event \in 0..MaxTime
    /\ debounce_timer \subseteq 0..(MaxTime + MaxDebounce)
    /\ Cardinality(debounce_timer) <= 1
    /\ debounce_duration \in 0..MaxDebounce
    /\ now \in 0..MaxTime
    /\ fileVer \in 0..MaxEdits
    /\ Len(uploads) <= MaxEdits
    /\ remoteVer \in 0..MaxEdits
    /\ nEvents \in 0..MaxEdits
    /\ nRecv \in 0..MaxEdits
    /\ lastProduced \in 0..MaxTime
    /\ burst \in BOOLEAN
    /\ delivered \subseteq OtherNotifications
    /\ forwarded \subseteq delivered

\* ------------------------------------------------------------------ claims

\* The editor is open, the loop waits in the select, and nothing is pending:
\* no queued event and no armed timer.  Until a new change event arrives the
\* loop takes no further step.
Quiet ==
    /\ pc = "edit"
    /\ editor = "running"
    /\ task = "select"
    /\ rx = 0
    /\ debounce_timer = {}

LastUpload == uploads[Len(uploads)]

\* C1 (debounce coalescing): once a burst of N >= 1 change events, each
\* strictly within debounce_duration of the previous one, has been fully
\* handled, exactly one upload has been issued, and it started no earlier
\* than the last event of the burst.
C1_Coalescing ==
    (Quiet /\ nEvents >= 1 /\ burst)
        => (Len(uploads) = 1 /\ uploads[1].events = nEvents)

\* C2 (debounce fairness): while the editor is open, once events stop
\* arriving an upload covers the last received event: when the loop has
\* nothing pending, the last upload was issued after every received event.
C2_Fairness ==
    Quiet => (nRecv = 0 \/ (Len(uploads) > 0 /\ LastUpload.recv = nRecv))

\* C3 (no pending flush dropped at shutdown): when the loop exits on the
\* stop signal with a timer armed or events queued, the last upload issued
\* carries the working copy's current content.
C3_NoDropAtShutdown ==
    (task = "done" /\ (debounce_timer # {} \/ rx > 0))
        => (Len(uploads) > 0 /\ LastUpload.ver = fileVer)

\* C4 (uploads are serialized): only the most recent upload can be in
\* flight, so at most one is, and every earlier upload completed (ok or
\* failed) before the next began.
C4_Serialized ==
    \A i \in 1..Len(uploads) :
        uploads[i].status = "inflight" => (i = Len(uploads) /\ task = "uploading")

\* C4 witness: a second upload is in flight while a change event produced
\* after it began waits in the channel.
C4_Witness ==
    /\ Len(uploads) >= 2
    /\ task = "uploading"
    /\ LastUpload.status = "inflight"
    /\ rx > 0
    /\ nEvents > LastUpload.events

\* C5 as claimed (exit code): in a session that got as far as cloud_edit,
\* the exit code is non-zero exactly when the download failed or the editor
\* exited non-zero.
C5_ExitCodeAsClaimed ==
    (pc = "exited" /\ cfg = "ok")
        => (exitCode # 0 <=> (downloadResult = "failed" \/ editorStatus = 1))

\* C5 amended (exit code): the exit code is non-zero exactly when startup
\* fails before the download (no temporary file included), the download fails, the editor cannot be
\* launched, the editor exits non-zero, or the file watch cannot be
\* established; it is zero in every other run, whatever the uploads returned.
C5_ExitCode ==
    pc = "exited"
        => (exitCode # 0 <=> \/ cfg # "ok"
                             \/ temp_path = "failed"
                             \/ downloadResult = "failed"
                             \/ editor = "launchfailed"
                             \/ editorStatus = 1
                             \/ watcher = "failed")

\* C5 witness: the process exited 0 although an upload failed.
C5_Witness ==
    /\ pc = "exited"
    /\ exitCode = 0
    /\ \E i \in 1..Len(uploads) : uploads[i].status = "failed"

\* C6 (fatal before edit): when the download fails the editor is never
\* launched, the task and the watcher are never started, no upload is
\* issued, and the process exits non-zero.
C6_FatalBeforeEdit ==
    downloadResult = "failed"
        => /\ editor = "notlaunched"
           /\ task = "notspawned"
           /\ watcher = "none"
           /\ uploads = << >>
           /\ pc = "exited"
           /\ exitCode # 0

\* C6 witness: the download has failed.
C6_Witness == downloadResult = "failed" /\ pc = "exited" /\ exitCode = 1

\* C7 (stop on editor exit): when the process ends after the editor exited
\* with any status, the stop signal was sent exactly once, and a non-zero
\* editor status is reported only after the loop has exited.  Runs in which
\* the watcher could not be created, where no loop exists, are left out.
C7_StopThenReport ==
    (pc = "exited" /\ editor = "exited" /\ watcher # "failed")
        => (stopsSent = 1 /\ (editorStatus # 0 => task = "done"))

\* C8 (clean shutdown): after the editor exits with status 0 the stop is
\* sent, the loop takes the stop branch and exits, and cloud_edit returns.
C8_CleanShutdown ==
    (editorStatus = 0) ~> (pc = "exited" /\ task \in {"done", "failed"})

\* C8 witness: the session ended cleanly after the loop took the stop branch
\* with a timer armed and a change event still queued.
C8_Witness ==
    /\ pc = "exited"
    /\ editorStatus = 0
    /\ exitCode = 0
    /\ task = "done"
    /\ debounce_timer # {}
    /\ rx > 0

\* C9 (the task is joined): whenever cloud_edit has returned or the process
\* has exited after the task was spawned, the task has terminated.
C9_JoinedBeforeReturn ==
    (pc \in {"returned", "exited"} /\ task # "notspawned")
        => task \in {"done", "failed"}

\* C10 (a failed upload is non-fatal): a failed upload does not end the
\* loop and does not change the exit code; until a new event is received
\* the timer stays disarmed and nothing is retried; and an event received
\* after the failure leads to a new upload attempt, so the loop is never
\* left with nothing pending and the failed upload still its last.
C10_FailedUploadNonFatal ==
    \A i \in 1..Len(uploads) :
        uploads[i].status = "failed" =>
            /\ task # "failed"
            /\ (pc = "exited" /\ editorStatus = 0) => exitCode = 0
            /\ (i = Len(uploads) /\ nRecv = uploads[i].recv) => debounce_timer = {}
            /\ (i = Len(uploads) /\ Quiet) => nRecv = uploads[i].recv

\* C11 (watch failure is fatal): once the file watch could not be
\* established the editor session is not kept running without
\* synchronization, and the process exits non-zero.
C11_WatchFailureFatal ==
    watcher = "failed"
        => /\ editor # "running"
           /\ (pc = "exited" => exitCode # 0)

\* C12 (zero-duration degeneracy): with debounce_duration = 0, once the loop
\* has nothing pending there are as many uploads as change events, and the
\* last upload started after the last event.
C12_ZeroDuration ==
    (debounce_duration = 0 /\ Quiet)
        => /\ Len(uploads) = nEvents
           /\ (nEvents > 0 => LastUpload.events = nEvents)

\* C13 (single-edit scenario): with one change event in the session, at
\* most one upload is ever issued; once more than debounce_duration has
\* passed since the event exactly one has been issued; it carries the
\* working copy's content; no upload is in flight once the loop has taken
\* the stop branch; and after the editor exits 0 the exit code is 0.
C13_SingleEdit ==
    nEvents = 1
        => /\ Len(uploads) <= 1
           /\ (now - lastProduced > debounce_duration) => Len(uploads) = 1
           /\ (Len(uploads) = 1) => uploads[1].ver = fileVer
           /\ (task = "done") => (\A i \in 1..Len(uploads) : uploads[i].status # "inflight")
           /\ (pc = "exited" /\ editorStatus = 0) => exitCode = 0

\* C13 witness: one edit, one successful upload of it after the quiet
\* period, then the editor exited 0 and the process exited 0.
C13_Witness ==
    /\ nEvents = 1
    /\ fileVer = 1
    /\ debounce_duration > 0
    /\ now - lastProduced > debounce_duration
    /\ Len(uploads) = 1
    /\ uploads[1].status = "ok"
    /\ uploads[1].ver = 1
    /\ remoteVer = 1
    /\ pc = "exited"
    /\ editorStatus = 0
    /\ exitCode = 0

\* C15 (trailing edge): every upload began at least debounce_duration after
\* the most recent change event the watcher had produced, queued events
\* included.
C15_TrailingEdge ==
    \A i \in 1..Len(uploads) : uploads[i].trailing

\* C18 (debounce window state): at most one timer is armed; an armed timer
\* was armed by a received event, no later than last_event; the timer is
\* armed only by the receipt of an event when none is armed and is otherwise
\* only cleared; an event received while it is armed sets last_event and
\* leaves the timer as it is.
C18_TimerState ==
    /\ [](/\ Cardinality(debounce_timer) <= 1
          /\ debounce_timer # {} =>
                /\ nRecv > 0
                /\ \A d \in debounce_timer : d <= last_event + debounce_duration)
    /\ [][debounce_timer' # debounce_timer =>
             \/ debounce_timer' = {}
             \/ (debounce_timer = {} /\ nRecv' = nRecv + 1)]_vars
    /\ [][(debounce_timer # {} /\ nRecv' # nRecv) =>
             (debounce_timer' = debounce_timer /\ last_event' = now)]_vars

\* C18 witness: a timer is armed and a second event was received, later
\* than the one that armed it.
C18_Witness ==
    /\ nRecv >= 2
    /\ \E d \in debounce_timer : d < last_event + debounce_duration

\* C19 (uploads are caused by change events): there are at most as many
\* uploads as received events, every upload began after an event had been
\* received, and between two uploads a further event was received, so one
\* timer expiry issues at most one upload.
C19_UploadsFromEvents ==
    /\ Len(uploads) <= nRecv
    /\ \A i \in 1..Len(uploads) : uploads[i].recv >= 1
    /\ \A i, j \in 1..Len(uploads) : i < j => uploads[i].recv < uploads[j].recv

\* C19 witness: two received events, each with its own upload.
C19_Witness == Len(uploads) = 2 /\ nRecv = 2 /\ uploads[1].recv = 1

C14_ParseUri ==
    parsed.kind # "pending" =>
        IF uri = {} THEN parsed = OkNone
        ELSE \A u \in uri :
            LET cuts == {c \in {S3Scheme, GsScheme} \X (0..Len(u)) :
                            /\ Len(u) >= Len(c[1]) + c[2] + 1
                            /\ SubSeq(u, 1, Len(c[1])) = c[1]
                            /\ u[Len(c[1]) + c[2] + 1] = "/"
                            /\ \A i \in 1..c[2] : u[Len(c[1]) + i] # "/"}
            IN  IF cuts = {} THEN parsed = ParseErr
                ELSE \A c \in cuts :
                        /\ parsed.kind = "ok"
                        /\ parsed.bucket = SubSeq(u, Len(c[1]) + 1, Len(c[1]) + c[2])
                        /\ parsed.key = SubSeq(u, Len(c[1]) + c[2] + 2, Len(u))

\* C14 witness: a gs:// URI was parsed into a bucket and a key that itself
\* holds a '/'.
C14_Witness ==
    /\ parsed.kind = "ok"
    /\ \E u \in uri : SubSeq(u, 1, 5) = GsScheme
    /\ Len(parsed.bucket) > 0
    /\ \E i \in 1..Len(parsed.key) : parsed.key[i] = "/"

\* C16 (watch filter): no create, delete, rename or metadata-only
\* notification and no watcher error is sent on as a change event, so
\* without a write of new content there is no change event and no upload.
C16_WatchFilter ==
    /\ forwarded = {}
    /\ fileVer = 0 => (nEvents = 0 /\ uploads = << >>)

\* C17 (working-copy lifecycle): a temporary file allocated by the session
\* is not deleted while the session runs and no longer exists once the
\* session has ended; a caller-supplied path is never deleted.
C17_WorkingCopyLifecycle ==
    /\ (temp_path = "temp" /\ pc # "exited") => deletions = 0
    /\ (temp_path = "temp" /\ pc = "exited") => ~onDisk
    /\ temp_path = "supplied" => deletions = 0

====
